---- MODULE Spec2Model ----
(***************************************************************************)
(* State-machine model of the security incident processor                  *)
(* (src/src/function_app.py).                                              *)
(*                                                                         *)
(* The module-level singleton incident_processor, the Cosmos DB container  *)
(* and the requests in flight are the state.  All handlers are coroutines  *)
(* on one event loop: a handler runs atomically from one suspending await  *)
(* (a model call or a store call) to the next, so each action below is one *)
(* such segment.  _setup_cosmos_client and _setup_openai_client contain no *)
(* suspending await, hence _ensure_initialized is part of the segment that *)
(* calls it.                                                               *)
(***************************************************************************)
EXTENDS Integers, Sequences, FiniteSets, TLC

\* ---------------------------------------------------------------------------
\* Bounds
\* ---------------------------------------------------------------------------
NumProcs == 2
MaxRequests == 2

Procs == 1..NumProcs

\* ---------------------------------------------------------------------------
\* Python values
\* ---------------------------------------------------------------------------
\* None, and the marker of a key that a dict does not hold
None == "<None>"
Absent == "<absent>"

\* dict.get(key): None for a missing key
Get(d, k) == IF d[k] = Absent THEN None ELSE d[k]

\* dict.get(key, default)
GetDefault(d, k, dflt) == IF d[k] = Absent THEN dflt ELSE d[k]

\* truth value of a string-or-None
Truthy(x) == x \notin {None, Absent, ""}

\* a or b
Or(a, b) == IF Truthy(a) THEN a ELSE b

\* JSON values as returned by json.loads, tagged with their Python type
JNull == [t |-> "null", v |-> None]
JStr(s) == [t |-> "str", v |-> s]
JNum(n) == [t |-> "num", v |-> n]
JList(q) == [t |-> "list", v |-> q]
JDict(f) == [t |-> "dict", v |-> f]
JOf(x) == IF x = None THEN JNull ELSE JStr(x)

\* analysis.get(key) on a dict
JGet(a, k) == IF k \in DOMAIN a.v THEN a.v[k] ELSE JNull

\* datetime.utcnow().isoformat()
Now == "utcnow"

\* ---------------------------------------------------------------------------
\* Constants of the program
\* ---------------------------------------------------------------------------
SEVERITY_LEVELS_FromZero(s) ==
    CASE s = "Informational" -> 0
      [] s = "Low" -> 1
      [] s = "Medium" -> 2
      [] s = "High" -> 3
      [] s = "Critical" -> 4
      [] OTHER -> 0

SEVERITY_LEVELS(s) ==
    CASE s = "Informational" -> 1
      [] s = "Low" -> 2
      [] s = "Medium" -> 3
      [] s = "High" -> 4
      [] s = "Critical" -> 5
      [] OTHER -> 0

\* the eight fields the system message of analyze_incident asks for, with
\* the type each is asked to have
PlanFields ==
    {"risk_level", "immediate_actions", "short_term_actions",
     "long_term_actions", "required_teams", "estimated_resolution_hours",
     "business_impact", "analysis_summary"}

PlanFieldType(f) ==
    CASE f \in {"risk_level", "business_impact", "analysis_summary"} -> "str"
      [] f = "estimated_resolution_hours" -> "num"
      [] OTHER -> "list"

\* ---------------------------------------------------------------------------
\* Inputs
\* ---------------------------------------------------------------------------
\* an incident payload: the keys the pipeline looks at
Payload(iid, id, title, name, sev, tactics) ==
    [incidentId |-> iid, id |-> id, title |-> title, incidentName |-> name,
     severity |-> sev, tactics |-> tactics,
     status |-> Absent, relatedEntities |-> Absent, relatedAlerts |-> Absent]

\* tactics is a list; ", ".join(tactics) needs its items to be strings
StrList == "list[str]"
IntList == "list[int]"
EmptyList == "list[]"

\* the empty dict
NoPayload == Payload(Absent, Absent, Absent, Absent, Absent, Absent)

\* request bodies of sentinel-receiver: json is FALSE when req.get_json()
\* raises; properties is the dict under the key "properties" (the empty
\* dict when there is none) and top holds the other keys of the body
Bodies ==
    { [json |-> TRUE, properties |-> NoPayload,
       top |-> Payload("INC-1", Absent, "X", Absent, "Critical", Absent)],
      [json |-> TRUE,
       properties |-> Payload(Absent, "INC-1", Absent, "Y", "High", StrList),
       top |-> Payload(Absent, "ARM-1", Absent, Absent, Absent, Absent)],
      [json |-> TRUE, properties |-> NoPayload,
       top |-> Payload("INC-3", Absent, "W", Absent, Absent, IntList)],
      [json |-> TRUE, properties |-> NoPayload,
       top |-> Payload("INC-2", Absent, "U", Absent, Absent, Absent)],
      [json |-> FALSE, properties |-> NoPayload, top |-> NoPayload] }

\* the values of severity a payload may carry: the five of the table, a
\* string that is not in it, and none
Severities == {"Informational", "Low", "Medium", "High", "Critical", "critical", Absent}

\* one request body per value of severity
SeverityBodies ==
    { [json |-> TRUE, properties |-> NoPayload,
       top |-> Payload("INC-1", Absent, "X", Absent, sev, Absent)] : sev \in Severities }

\* body.get("properties") or body
IncidentOf(body) == IF body.properties # NoPayload THEN body.properties ELSE body.top

\* a plan as the system message asks for it
GoodPlan(risk) ==
    JDict([risk_level |-> JStr(risk),
           immediate_actions |-> JList(<<"Isolate host", "Reset credentials", "Block IP">>),
           short_term_actions |-> JList(<<"Review logs">>),
           long_term_actions |-> JList(<<"Harden servers">>),
           required_teams |-> JList(<<"SOC">>),
           estimated_resolution_hours |-> JNum(8),
           business_impact |-> JStr("Service disruption"),
           analysis_summary |-> JStr("Summary")])

\* the same plan without its risk_level
PlanMissingField ==
    JDict([f \in PlanFields \ {"risk_level"} |-> GoodPlan("High").v[f]])

\* the same plan with a string where the number is asked for
PlanWrongType ==
    JDict([GoodPlan("High").v EXCEPT !["estimated_resolution_hours"] = JStr("soon")])

\* replies of the chat completion to analyze_incident: the call raises, or
\* it returns content that json.loads rejects, or content that parses
AnalysisReplies ==
    { [raises |-> TRUE, parses |-> FALSE, value |-> JNull],
      [raises |-> FALSE, parses |-> FALSE, value |-> JNull],
      [raises |-> FALSE, parses |-> TRUE, value |-> GoodPlan("High")],
      [raises |-> FALSE, parses |-> TRUE, value |-> PlanMissingField],
      [raises |-> FALSE, parses |-> TRUE, value |-> PlanWrongType],
      [raises |-> FALSE, parses |-> TRUE, value |-> JList(<< >>)] }

\* ---------------------------------------------------------------------------
\* State
\* ---------------------------------------------------------------------------
VARIABLES
    env,        \* os.getenv: which endpoint variables are set
    processor,  \* the singleton incident_processor
    created,    \* how many CosmosClient / AsyncAzureOpenAI objects were built
    store,      \* the documents of the container, in creation order
    uuids,      \* how many uuid4 values were drawn
    started,    \* how many requests were started
    kind,       \* per request slot: the handler running
    pc,         \* per request slot: the await the handler is suspended at
    loc,        \* per request slot: the handler's local variables
    trace,      \* per request slot: the calls the current request has made
    resp        \* per request slot: the response of the last request

vars == <<env, processor, created, store, uuids, started, kind, pc, loc, trace, resp>>

\* ---------------------------------------------------------------------------
\* SentinelIncidentProcessor
\* ---------------------------------------------------------------------------
\* __init__: a client field holds 0 for None, else the number of the object
NewProcessor ==
    [cosmos_client |-> 0, database |-> 0, container |-> 0,
     openai_client |-> 0, _initialized |-> FALSE]

\* the result of a call: the processor and the object counts after it, and
\* the message of the exception it raised ("" when it returned)
Result(pr, cr, err) == [processor |-> pr, created |-> cr, err |-> err]

_setup_cosmos_client(pr, cr) ==
    IF ~env.cosmos
    THEN Result(pr, cr, "Missing required environment variable: COSMOS_ENDPOINT")
    ELSE LET n == cr.cosmos + 1
         IN Result([pr EXCEPT !.cosmos_client = n, !.database = n, !.container = n],
                   [cr EXCEPT !.cosmos = n], "")

_setup_openai_client(pr, cr) ==
    IF ~env.openai
    THEN Result(pr, cr, "Missing required environment variable: AZURE_OPENAI_ENDPOINT")
    ELSE LET n == cr.openai + 1
         IN Result([pr EXCEPT !.openai_client = n], [cr EXCEPT !.openai = n], "")

\* an initialisation that sets the flag before the clients are set up
_ensure_initialized_FlagFirst(pr, cr) ==
    IF pr._initialized
    THEN Result(pr, cr, "")
    ELSE LET f == [pr EXCEPT !._initialized = TRUE]
             c == _setup_cosmos_client(f, cr)
         IN IF c.err # ""
            THEN c
            ELSE _setup_openai_client(c.processor, c.created)

_ensure_initialized(pr, cr) ==
    IF pr._initialized
    THEN Result(pr, cr, "")
    ELSE LET c == _setup_cosmos_client(pr, cr)
         IN IF c.err # ""
            THEN c
            ELSE LET o == _setup_openai_client(c.processor, c.created)
                 IN IF o.err # ""
                    THEN o
                    ELSE Result([o.processor EXCEPT !._initialized = TRUE], o.created, "")

\* a fallback plan that leaves the risk level out
FallbackPlan_NoRisk(severity, e) ==
    JDict([immediate_actions |-> JList(<<"Investigate incident", "Assess impact">>),
           short_term_actions |-> JList(<<"Review logs", "Document findings">>),
           long_term_actions |-> JList(<<"Update security policies">>),
           required_teams |-> JList(<<"Security Operations">>),
           estimated_resolution_hours |-> JNum(24),
           business_impact |-> JStr("Unable to determine"),
           analysis_summary |-> JStr("Error during analysis: " \o e)])

\* the fallback plan of analyze_incident's except branch
FallbackPlan(severity, e) ==
    JDict([risk_level |-> JOf(severity),
           immediate_actions |-> JList(<<"Investigate incident", "Assess impact">>),
           short_term_actions |-> JList(<<"Review logs", "Document findings">>),
           long_term_actions |-> JList(<<"Update security policies">>),
           required_teams |-> JList(<<"Security Operations">>),
           estimated_resolution_hours |-> JNum(24),
           business_impact |-> JStr("Unable to determine"),
           analysis_summary |-> JStr("Error during analysis: " \o e)])

\* analyze_incident from the reply of the chat completion to its return
AnalysisOf(incident_data, reply) ==
    IF reply.raises
    THEN FallbackPlan(GetDefault(incident_data, "severity", "Unknown"), "APIError")
    ELSE IF ~reply.parses
         THEN FallbackPlan(GetDefault(incident_data, "severity", "Unknown"), "JSONDecodeError")
         ELSE reply.value

\* str(uuid.uuid4()): the n-th value drawn
Uuid(n) == "uuid-" \o ToString(n)

\* the document store_incident builds
Document(id, incident_data, analysis) ==
    [id |-> id,
     document_type |-> "security_incident",
     incident_id |-> Or(Get(incident_data, "incidentId"), Get(incident_data, "id")),
     title |-> Or(Get(incident_data, "title"), Get(incident_data, "incidentName")),
     severity |-> Get(incident_data, "severity"),
     severity_level |-> SEVERITY_LEVELS(GetDefault(incident_data, "severity", "Unknown")),
     status |-> GetDefault(incident_data, "status", "New"),
     created_time |-> Now,
     tactics |-> GetDefault(incident_data, "tactics", EmptyList),
     entities |-> GetDefault(incident_data, "relatedEntities", EmptyList),
     alerts |-> GetDefault(incident_data, "relatedAlerts", EmptyList),
     analysis |-> analysis,
     action_plan_status |-> "Pending",
     action_plan_notes |-> Absent,
     action_plan_updated |-> Absent,
     raw_data |-> incident_data]

\* the container assigns the system property _etag to what it stores
WithEtag(document, n) == [k \in DOMAIN document \cup {"_etag"} |->
                             IF k = "_etag" THEN n ELSE document[k]]

\* the container outlives the application: at start it is empty, or holds
\* a document that an earlier run of the application stored
PriorDocument ==
    WithEtag(Document(Uuid(0), Payload("INC-0", Absent, "V", Absent, "Medium", Absent),
                      GoodPlan("Medium")), 1)

\* ---------------------------------------------------------------------------
\* Requests
\* ---------------------------------------------------------------------------
\* local variables of a handler that has not set them
NoLoc ==
    [incident |-> NoPayload,
     title |-> None, severity |-> None, incident_id |-> None,
     analysis |-> JNull, outcome |-> "none", document_id |-> None,
     action_status |-> None, notes |-> None, read_etag |-> 0,
     document |-> JNull, query |-> None, sql_query |-> << >>, limit |-> 0,
     raised |-> ""]

NoResp == [status |-> 0, body |-> [pending |-> TRUE]]

\* the failure envelope of a handler's except branch
Failure(status, e) ==
    [status |-> status, body |-> [success |-> FALSE, error |-> e, timestamp |-> Now]]

Free(p) == pc[p] \in {"idle", "done"}

Init ==
    /\ env \in [cosmos : BOOLEAN, openai : BOOLEAN]
    /\ processor = NewProcessor
    /\ created = [cosmos |-> 0, openai |-> 0]
    /\ store \in {<< >>, <<PriorDocument>>}
    /\ uuids = 0
    /\ started = 0
    /\ kind = [p \in Procs |-> "none"]
    /\ pc = [p \in Procs |-> "idle"]
    /\ loc = [p \in Procs |-> NoLoc]
    /\ trace = [p \in Procs |-> << >>]
    /\ resp = [p \in Procs |-> NoResp]

\* a request ends: its response is set, its frame is gone and its slot is
\* free again; of the locals only the record of what analyze_incident did
\* and of the exception that ended the request is kept
Finish(p, r, l) ==
    /\ pc' = [pc EXCEPT ![p] = "done"]
    /\ resp' = [resp EXCEPT ![p] = r]
    /\ loc' = [loc EXCEPT ![p] = [NoLoc EXCEPT !.outcome = l.outcome, !.raised = l.raised]]

\* a request suspends at an await
Suspend(p, at, l) ==
    /\ pc' = [pc EXCEPT ![p] = at]
    /\ resp' = [resp EXCEPT ![p] = NoResp]
    /\ loc' = [loc EXCEPT ![p] = l]

\* ---------------------------------------------------------------------------
\* sentinel_receiver
\* ---------------------------------------------------------------------------
\* from the request to the await of the chat completion in analyze_incident
SentinelStart(p, body) ==
    /\ Free(p)
    /\ started < MaxRequests
    /\ started' = started + 1
    /\ kind' = [kind EXCEPT ![p] = "sentinel_receiver"]
    /\ UNCHANGED <<env, store, uuids>>
    /\ IF ~body.json
       THEN /\ trace' = [trace EXCEPT ![p] = << >>]
            /\ Finish(p, Failure(400, "ValueError"), [NoLoc EXCEPT !.raised = "ValueError"])
            /\ UNCHANGED <<processor, created>>
       ELSE LET incident == IncidentOf(body)
                l == [NoLoc EXCEPT
                        !.incident = incident,
                        !.title = Or(Get(incident, "title"), Get(incident, "incidentName")),
                        !.severity = GetDefault(incident, "severity", "Unknown"),
                        !.incident_id = Or(Get(incident, "incidentId"), Get(incident, "id"))]
                ei == _ensure_initialized(processor, created)
            IN /\ processor' = ei.processor
               /\ created' = ei.created
               /\ IF ei.err # ""
                  THEN /\ trace' = [trace EXCEPT ![p] = <<"_ensure_initialized">>]
                       /\ Finish(p, Failure(400, ei.err),
                                 [l EXCEPT !.outcome = "raised", !.raised = ei.err])
                  ELSE IF ei.processor.openai_client = 0
                  THEN /\ trace' = [trace EXCEPT ![p] = <<"_ensure_initialized">>]
                       /\ Finish(p, Failure(400, "OpenAI client not properly initialized"),
                                 [l EXCEPT !.outcome = "raised",
                                           !.raised = "OpenAI client not properly initialized"])
                  ELSE IF incident.tactics = IntList
                  THEN /\ trace' = [trace EXCEPT ![p] = <<"_ensure_initialized">>]
                       /\ Finish(p, Failure(400, "TypeError"),
                                 [l EXCEPT !.outcome = "raised", !.raised = "TypeError"])
                  ELSE /\ trace' = [trace EXCEPT ![p] =
                                       <<"_ensure_initialized", "chat.completions.create">>]
                       /\ Suspend(p, "analyze_incident", l)

\* from the reply of the chat completion to the await of create_item in
\* store_incident
SentinelAnalyzed(p, reply) ==
    /\ kind[p] = "sentinel_receiver"
    /\ pc[p] = "analyze_incident"
    /\ UNCHANGED <<env, store, started, kind>>
    /\ LET analysis == AnalysisOf(loc[p].incident, reply)
           l == [loc[p] EXCEPT
                   !.analysis = analysis,
                   !.outcome = IF reply.raises \/ ~reply.parses
                               THEN "fallback" ELSE "model"]
           ei == _ensure_initialized(processor, created)
       IN /\ processor' = ei.processor
          /\ created' = ei.created
          /\ IF ei.err # ""
             THEN /\ trace' = [trace EXCEPT ![p] = Append(@, "_ensure_initialized")]
                  /\ uuids' = uuids
                  /\ Finish(p, Failure(400, ei.err), [l EXCEPT !.raised = ei.err])
             ELSE IF ei.processor.container = 0
             THEN /\ trace' = [trace EXCEPT ![p] = Append(@, "_ensure_initialized")]
                  /\ uuids' = uuids
                  /\ Finish(p, Failure(400, "Cosmos DB container not properly initialized"),
                            [l EXCEPT !.raised = "Cosmos DB container not properly initialized"])
             ELSE /\ uuids' = uuids + 1
                  /\ trace' = [trace EXCEPT ![p] =
                                  @ \o <<"_ensure_initialized", "create_item">>]
                  /\ Suspend(p, "store_incident",
                             [l EXCEPT !.document =
                                 Document(Uuid(uuids + 1), loc[p].incident, analysis)])

\* outcomes of a call to the container other than its result: the service
\* answers, or the call raises CosmosHttpResponseError
StoreOutcomes == {"ok", "unavailable"}

\* from the result of create_item to the response
SentinelStored(p, outcome) ==
    /\ kind[p] = "sentinel_receiver"
    /\ pc[p] = "store_incident"
    /\ UNCHANGED <<env, processor, created, uuids, started, kind, trace>>
    /\ IF outcome = "unavailable"
       THEN /\ store' = store
            /\ Finish(p, Failure(400, "CosmosHttpResponseError"),
                      [loc[p] EXCEPT !.raised = "CosmosHttpResponseError"])
       ELSE /\ store' = Append(store, WithEtag(loc[p].document, 1))
            /\ IF loc[p].analysis.t # "dict"
               THEN Finish(p, Failure(400, "AttributeError"),
                           [loc[p] EXCEPT !.raised = "AttributeError"])
               ELSE Finish(p,
                      [status |-> 200,
                       body |-> [success |-> TRUE,
                                 incident_id |-> loc[p].incident_id,
                                 document_id |-> loc[p].document.id,
                                 title |-> loc[p].title,
                                 severity |-> loc[p].severity,
                                 risk_level |-> JGet(loc[p].analysis, "risk_level"),
                                 immediate_actions |->
                                     IF "immediate_actions" \in DOMAIN loc[p].analysis.v
                                     THEN loc[p].analysis.v["immediate_actions"]
                                     ELSE JList(<< >>),
                                 estimated_resolution_hours |->
                                     JGet(loc[p].analysis, "estimated_resolution_hours"),
                                 message |-> "Incident processed and action plan generated",
                                 timestamp |-> Now]],
                      loc[p])

\* ---------------------------------------------------------------------------
\* http_update_incident_actions
\* ---------------------------------------------------------------------------
\* request bodies of incident-actions
UpdateBody(json, id, status, notes) ==
    [json |-> json, document_id |-> id, action_status |-> status, notes |-> notes]

UpdateBodies ==
    { UpdateBody(TRUE, "uuid-0", "In Progress", "checked"),
      UpdateBody(TRUE, "uuid-0", "Completed", Absent),
      UpdateBody(TRUE, "uuid-1", "Escalated", Absent),
      UpdateBody(TRUE, "uuid-9", "Completed", Absent),
      UpdateBody(TRUE, Absent, "Completed", "checked"),
      UpdateBody(TRUE, "uuid-0", Absent, Absent),
      UpdateBody(TRUE, "", "", Absent),
      UpdateBody(FALSE, Absent, Absent, Absent) }

\* index of the document with this id in the container, 0 when there is none
IndexOf(documents, id) ==
    IF \E i \in 1..Len(documents) : documents[i].id = id
    THEN CHOOSE i \in 1..Len(documents) : documents[i].id = id
    ELSE 0

\* the check of the mandatory fields, asking for both to be missing
MissingFields_Both(document_id, action_status) ==
    ~Truthy(document_id) /\ ~Truthy(action_status)

\* the check of the mandatory fields
MissingFields(document_id, action_status) ==
    ~Truthy(document_id) \/ ~Truthy(action_status)

\* from the request to the await of read_item
UpdateStart(p, body) ==
    /\ Free(p)
    /\ started < MaxRequests
    /\ started' = started + 1
    /\ kind' = [kind EXCEPT ![p] = "http_update_incident_actions"]
    /\ UNCHANGED <<env, store, uuids>>
    /\ IF ~body.json
       THEN /\ trace' = [trace EXCEPT ![p] = << >>]
            /\ Finish(p, Failure(500, "ValueError"), [NoLoc EXCEPT !.raised = "ValueError"])
            /\ UNCHANGED <<processor, created>>
       ELSE LET l == [NoLoc EXCEPT
                        !.document_id = Get(body, "document_id"),
                        !.action_status = Get(body, "action_status"),
                        !.notes = GetDefault(body, "notes", "")]
            IN IF MissingFields(l.document_id, l.action_status)
               THEN /\ trace' = [trace EXCEPT ![p] = << >>]
                    /\ Finish(p,
                         [status |-> 400,
                          body |-> [error |->
                              "Missing required fields: document_id, action_status"]],
                         l)
                    /\ UNCHANGED <<processor, created>>
               ELSE LET ei == _ensure_initialized(processor, created)
                    IN /\ processor' = ei.processor
                       /\ created' = ei.created
                       /\ IF ei.err # ""
                          THEN /\ trace' = [trace EXCEPT ![p] = <<"_ensure_initialized">>]
                               /\ Finish(p, Failure(500, ei.err), [l EXCEPT !.raised = ei.err])
                          ELSE /\ trace' = [trace EXCEPT ![p] =
                                               <<"_ensure_initialized", "read_item">>]
                               /\ Suspend(p, "read_item", l)

\* from the result of read_item to the await of replace_item
UpdateRead(p, outcome) ==
    /\ kind[p] = "http_update_incident_actions"
    /\ pc[p] = "read_item"
    /\ UNCHANGED <<env, processor, created, store, uuids, started, kind>>
    /\ LET i == IndexOf(store, loc[p].document_id)
       IN IF outcome = "unavailable"
          THEN /\ trace' = trace
               /\ Finish(p, Failure(500, "CosmosHttpResponseError"),
                         [loc[p] EXCEPT !.raised = "CosmosHttpResponseError"])
          ELSE IF i = 0
          THEN /\ trace' = trace
               /\ Finish(p, Failure(500, "CosmosResourceNotFoundError"),
                         [loc[p] EXCEPT !.raised = "CosmosResourceNotFoundError"])
          ELSE /\ trace' = [trace EXCEPT ![p] = Append(@, "replace_item")]
               /\ Suspend(p, "replace_item",
                          [loc[p] EXCEPT
                             !.read_etag = store[i]["_etag"],
                             !.document =
                                 [store[i] EXCEPT
                                    !.action_plan_status = loc[p].action_status,
                                    !.action_plan_notes = loc[p].notes,
                                    !.action_plan_updated = Now]])

\* container.replace_item(item, body) as the handler calls it, without an
\* etag match condition: the body replaces the stored document whatever
\* its current _etag
ReplaceItem_Rerank(documents, i, body) ==
    [documents EXCEPT ![i] = [body EXCEPT !["_etag"] = documents[i]["_etag"] + 1,
                                          !.severity_level = 0]]

ReplaceItem(documents, i, body) ==
    [documents EXCEPT ![i] = [body EXCEPT !["_etag"] = documents[i]["_etag"] + 1]]

\* from the result of replace_item to the response
UpdateReplaced(p, outcome) ==
    /\ kind[p] = "http_update_incident_actions"
    /\ pc[p] = "replace_item"
    /\ UNCHANGED <<env, processor, created, uuids, started, kind, trace>>
    /\ LET i == IndexOf(store, loc[p].document_id)
       IN IF outcome = "unavailable"
          THEN /\ store' = store
               /\ Finish(p, Failure(500, "CosmosHttpResponseError"),
                         [loc[p] EXCEPT !.raised = "CosmosHttpResponseError"])
          ELSE IF i = 0
          THEN /\ store' = store
               /\ Finish(p, Failure(500, "CosmosResourceNotFoundError"),
                         [loc[p] EXCEPT !.raised = "CosmosResourceNotFoundError"])
          ELSE /\ store' = ReplaceItem(store, i, loc[p].document)
               /\ Finish(p,
                    [status |-> 200,
                     body |-> [success |-> TRUE,
                               document_id |-> loc[p].document_id,
                               action_status |-> loc[p].action_status,
                               timestamp |-> Now]],
                    loc[p])

\* ---------------------------------------------------------------------------
\* query_incidents and generate_incident_sql
\* ---------------------------------------------------------------------------
\* Text is a sequence of tokens.  The tokens of a query:
SELECT == "SELECT * FROM c"
WHERE == " WHERE "
AND == " AND "
TYPE_FILTER == "c.document_type = 'security_incident'"
SEVERITY_FILTER == "c.severity = 'Critical'"
\* three backticks, alone and followed by sql
FENCE == "[3 backticks]"
FENCE_SQL == "[3 backticks]sql"
NL == "\n"
Whitespace == {NL, " "}

\* str.strip()
RECURSIVE LStrip(_)
LStrip(text) ==
    IF text # << >> /\ Head(text) \in Whitespace THEN LStrip(Tail(text)) ELSE text

RECURSIVE RStrip(_)
RStrip(text) ==
    IF text # << >> /\ text[Len(text)] \in Whitespace
    THEN RStrip(SubSeq(text, 1, Len(text) - 1))
    ELSE text

Strip(text) == RStrip(LStrip(text))

\* re.sub(marker + r'\n?', '', text): every marker goes, with the newline
\* right after it if there is one
RECURSIVE SubFence(_, _)
SubFence(marker, text) ==
    IF text = << >> THEN << >>
    ELSE IF Head(text) = marker
         THEN IF Len(text) > 1 /\ text[2] = NL
              THEN SubFence(marker, Tail(Tail(text)))
              ELSE SubFence(marker, Tail(text))
         ELSE <<Head(text)>> \o SubFence(marker, Tail(text))

\* what generate_incident_sql makes of the content of the model's message
SqlOf(content) == SubFence(FENCE, SubFence(FENCE_SQL, Strip(content)))

\* replies of the chat completion to generate_incident_sql
TranslationReplies ==
    { [raises |-> TRUE, content |-> << >>],
      [raises |-> FALSE, content |-> <<SELECT, WHERE, TYPE_FILTER, AND, SEVERITY_FILTER>>],
      [raises |-> FALSE,
       content |-> <<NL, FENCE_SQL, NL, SELECT, WHERE, TYPE_FILTER, NL, FENCE, NL>>],
      [raises |-> FALSE, content |-> <<SELECT, WHERE, SEVERITY_FILTER>>],
      [raises |-> FALSE, content |-> <<FENCE, NL, SELECT, NL, FENCE>>],
      [raises |-> FALSE, content |-> <<"I cannot answer that">>] }

\* the conditions of a query text, when it is a query the container accepts
Conditions(sql) == {sql[i] : i \in 1..Len(sql)} \ ({SELECT, WHERE, AND} \cup Whitespace)

WellFormed(sql) ==
    LET words == SelectSeq(sql, LAMBDA w : w \notin Whitespace)
    IN /\ Len(words) \in {1, 3, 5}
       /\ words[1] = SELECT
       /\ Len(words) >= 3 => words[2] = WHERE /\ words[3] \in {TYPE_FILTER, SEVERITY_FILTER}
       /\ Len(words) = 5 => words[4] = AND /\ words[5] \in {TYPE_FILTER, SEVERITY_FILTER}

Satisfies(document, cond) ==
    CASE cond = TYPE_FILTER -> document.document_type = "security_incident"
      [] cond = SEVERITY_FILTER -> document.severity = "Critical"
      [] OTHER -> FALSE

\* container.query_items(query = sql) on a query the container accepts
QueryItems(documents, sql) ==
    SelectSeq(documents, LAMBDA d : \A c \in Conditions(sql) : Satisfies(d, c))

\* the natural-language questions, and the default of the HTTP endpoint
QUESTION == "show critical incidents"
DEFAULT_QUERY == "SELECT * FROM c WHERE c.document_type = \"security_incident\" ORDER BY c.severity_level DESC"

\* generate_incident_sql answering a failed call with a query of its own
generate_incident_sql_Fallback(reply) ==
    IF reply.raises
    THEN [sql_query |-> <<SELECT, WHERE, TYPE_FILTER>>, err |-> ""]
    ELSE [sql_query |-> SqlOf(reply.content), err |-> ""]

\* generate_incident_sql from the reply of the chat completion to its
\* return: the query text, and the exception it raised ("" when it returned)
generate_incident_sql(reply) ==
    IF reply.raises
    THEN [sql_query |-> << >>, err |-> "APIError"]
    ELSE [sql_query |-> SqlOf(reply.content), err |-> ""]

\* req.params of GET incidents
QueryParams == {[query |-> q] : q \in {Absent, "", QUESTION}}

\* arguments of the query_incidents tool
QueryArguments == {[query |-> q] : q \in {Absent, "", "  ", QUESTION}}

\* str.strip() of a whole string
StripStr(x) == IF x \in {" ", "  "} THEN "" ELSE x

QuerySurfaces == {"http_query_incidents", "mcp_query_incidents"}

\* the failure envelope of each surface's except branch
QueryFailure(surface, e) ==
    IF surface = "http_query_incidents"
    THEN Failure(500, e)
    ELSE [status |-> 0,
          body |-> [error |-> "Error querying incidents: " \o e,
                    success |-> FALSE, timestamp |-> Now]]

\* query_incidents from its call to the await of the chat completion
QueryIncidentsStart(p, surface, query) ==
    LET l == [NoLoc EXCEPT !.query = query]
        ei == _ensure_initialized(processor, created)
    IN /\ processor' = ei.processor
       /\ created' = ei.created
       /\ IF ei.err # ""
          THEN /\ trace' = [trace EXCEPT ![p] = <<"_ensure_initialized">>]
               /\ Finish(p, QueryFailure(surface, ei.err), [l EXCEPT !.raised = ei.err])
          ELSE /\ trace' = [trace EXCEPT ![p] =
                               <<"_ensure_initialized", "_ensure_initialized",
                                 "chat.completions.create">>]
               /\ Suspend(p, "generate_incident_sql", l)

\* http_query_incidents from the request to the await of the chat completion
HttpQueryStart(p, params) ==
    /\ Free(p)
    /\ started < MaxRequests
    /\ started' = started + 1
    /\ kind' = [kind EXCEPT ![p] = "http_query_incidents"]
    /\ UNCHANGED <<env, store, uuids>>
    /\ QueryIncidentsStart(p, "http_query_incidents",
                           GetDefault(params, "query", DEFAULT_QUERY))

\* mcp_query_incidents from the request to the await of the chat completion
McpQueryStart(p, args) ==
    /\ Free(p)
    /\ started < MaxRequests
    /\ started' = started + 1
    /\ kind' = [kind EXCEPT ![p] = "mcp_query_incidents"]
    /\ UNCHANGED <<env, store, uuids>>
    /\ LET query == StripStr(GetDefault(args, "query", ""))
       IN IF ~Truthy(query)
          THEN /\ trace' = [trace EXCEPT ![p] = << >>]
               /\ Finish(p,
                    [status |-> 0,
                     body |-> [error |-> "Query parameter is required", success |-> FALSE]],
                    [NoLoc EXCEPT !.query = query])
               /\ UNCHANGED <<processor, created>>
          ELSE QueryIncidentsStart(p, "mcp_query_incidents", query)

\* a translation that asks the model once more when its call has raised
QueryTranslated_Retry(p, reply) ==
    /\ kind[p] \in QuerySurfaces
    /\ pc[p] = "generate_incident_sql"
    /\ UNCHANGED <<env, processor, created, store, uuids, started, kind>>
    /\ LET g == generate_incident_sql(reply)
       IN IF g.err # "" /\ Len(trace[p]) < 4
          THEN /\ trace' = [trace EXCEPT ![p] = Append(@, "chat.completions.create")]
               /\ UNCHANGED <<pc, loc, resp>>
          ELSE IF g.err # ""
          THEN /\ trace' = trace
               /\ Finish(p, QueryFailure(kind[p], g.err), [loc[p] EXCEPT !.raised = g.err])
          ELSE /\ trace' = [trace EXCEPT ![p] = Append(@, "query_items")]
               /\ Suspend(p, "query_items", [loc[p] EXCEPT !.sql_query = g.sql_query])

\* query_incidents from the reply of the chat completion to the await of
\* query_items
QueryTranslated(p, reply) ==
    /\ kind[p] \in QuerySurfaces
    /\ pc[p] = "generate_incident_sql"
    /\ UNCHANGED <<env, processor, created, store, uuids, started, kind>>
    /\ LET g == generate_incident_sql(reply)
       IN IF g.err # ""
          THEN /\ trace' = trace
               /\ Finish(p, QueryFailure(kind[p], g.err), [loc[p] EXCEPT !.raised = g.err])
          ELSE /\ trace' = [trace EXCEPT ![p] = Append(@, "query_items")]
               /\ Suspend(p, "query_items", [loc[p] EXCEPT !.sql_query = g.sql_query])

\* q[:n]
Take(q, n) == SubSeq(q, 1, IF Len(q) < n THEN Len(q) ELSE n)

\* the lines the summary of mcp_query_incidents gives to one incident
DigestEntry(incident) ==
    [title |-> incident.title,
     severity |-> incident.severity,
     risk_level |-> IF "risk_level" \in DOMAIN incident.analysis.v
                    THEN incident.analysis.v["risk_level"]
                    ELSE JStr("Not assessed"),
     status |-> incident.action_plan_status,
     created |-> incident.created_time,
     immediate_actions |-> IF "immediate_actions" \in DOMAIN incident.analysis.v
                           THEN Take(incident.analysis.v["immediate_actions"].v, 2)
                           ELSE << >>]

\* the summary of mcp_query_incidents: its header, the entries of the first
\* five incidents, and the number its last line gives (0 for no such line)
Digest(query, incidents) ==
    [query |-> query,
     results |-> Len(incidents),
     listed |-> [i \in 1..Len(Take(incidents, 5)) |-> DigestEntry(incidents[i])],
     more |-> IF Len(incidents) > 5 THEN Len(incidents) - 5 ELSE 0]

\* analysis.get raises AttributeError on an analysis that is no dict
DigestRaises(incidents) ==
    \E i \in 1..Len(Take(incidents, 5)) : incidents[i].analysis.t # "dict"

\* from the result of query_items to the response
QueryExecuted(p, outcome) ==
    /\ kind[p] \in QuerySurfaces
    /\ pc[p] = "query_items"
    /\ UNCHANGED <<env, processor, created, store, uuids, started, kind, trace>>
    /\ IF outcome = "unavailable"
       THEN Finish(p, QueryFailure(kind[p], "CosmosHttpResponseError"),
                   [loc[p] EXCEPT !.raised = "CosmosHttpResponseError"])
       ELSE IF ~WellFormed(loc[p].sql_query)
       THEN Finish(p, QueryFailure(kind[p], "BadRequest"),
                   [loc[p] EXCEPT !.raised = "BadRequest"])
       ELSE LET incidents == QueryItems(store, loc[p].sql_query)
            IN IF kind[p] = "http_query_incidents"
               THEN Finish(p,
                      [status |-> 200,
                       body |-> [success |-> TRUE,
                                 query |-> loc[p].query,
                                 incidents |-> incidents,
                                 count |-> Len(incidents),
                                 timestamp |-> Now]],
                      loc[p])
               ELSE IF DigestRaises(incidents)
               THEN Finish(p, QueryFailure(kind[p], "AttributeError"),
                           [loc[p] EXCEPT !.raised = "AttributeError"])
               ELSE Finish(p,
                      [status |-> 0,
                       body |-> [success |-> TRUE,
                                 query |-> loc[p].query,
                                 summary |-> Digest(loc[p].query, incidents),
                                 incidents |-> incidents,
                                 count |-> Len(incidents),
                                 timestamp |-> Now]],
                      loc[p])

\* ---------------------------------------------------------------------------
\* http_get_sample_incidents and get_sample_incidents
\* ---------------------------------------------------------------------------
\* req.params of GET sample-incidents
SampleParams == {[limit |-> x] : x \in {Absent, "0", "1", "2", "100", "1000", "abc"}}

\* int(text): the number, or ValueError
ParseInt(text) ==
    CASE text = "0" -> [ok |-> TRUE, value |-> 0]
      [] text = "1" -> [ok |-> TRUE, value |-> 1]
      [] text = "2" -> [ok |-> TRUE, value |-> 2]
      [] text = "10" -> [ok |-> TRUE, value |-> 10]
      [] text = "100" -> [ok |-> TRUE, value |-> 100]
      [] text = "1000" -> [ok |-> TRUE, value |-> 1000]
      [] OTHER -> [ok |-> FALSE, value |-> 0]

Min(a, b) == IF a < b THEN a ELSE b

Max(a, b) == IF a > b THEN a ELSE b

\* without the lower end of the range
ClampLimit_NoFloor(limit) == Min(limit, 100)

\* min(max(limit, 1), 100)
ClampLimit(limit) == Min(Max(limit, 1), 100)

\* the orders ORDER BY c.severity_level DESC may give the documents in:
\* the container decides the order of documents of equal severity_level
OrderBySeverityLevelDesc(documents) ==
    LET n == Len(documents)
        orders == {f \in [1..n -> 1..n] :
                     /\ \A i, j \in 1..n : f[i] = f[j] => i = j
                     /\ \A i \in 1..(n - 1) :
                           documents[f[i]].severity_level
                              >= documents[f[i + 1]].severity_level}
    IN {[i \in 1..n |-> documents[f[i]]] : f \in orders}

\* the results the query of get_sample_incidents may have:
\* SELECT TOP {limit} * FROM c WHERE c.document_type = 'security_incident'
\* ORDER BY c.severity_level DESC
SampleItems(documents, limit) ==
    {Take(q, limit) :
        q \in OrderBySeverityLevelDesc(
                 SelectSeq(documents, LAMBDA d : Satisfies(d, TYPE_FILTER)))}

\* the failure envelope of http_get_sample_incidents
SampleFailure(e) == Failure(500, "Internal server error: " \o e)

\* http_get_sample_incidents from the request to the await of query_items
\* in get_sample_incidents
HttpSampleStart(p, params) ==
    /\ Free(p)
    /\ started < MaxRequests
    /\ started' = started + 1
    /\ kind' = [kind EXCEPT ![p] = "http_get_sample_incidents"]
    /\ UNCHANGED <<env, store, uuids>>
    /\ LET parsed == ParseInt(GetDefault(params, "limit", "10"))
       IN IF ~parsed.ok
          THEN /\ trace' = [trace EXCEPT ![p] = << >>]
               /\ Finish(p, SampleFailure("ValueError"), [NoLoc EXCEPT !.raised = "ValueError"])
               /\ UNCHANGED <<processor, created>>
          ELSE LET l == [NoLoc EXCEPT !.limit = ClampLimit(parsed.value)]
                   ei == _ensure_initialized(processor, created)
               IN /\ processor' = ei.processor
                  /\ created' = ei.created
                  /\ IF ei.err # ""
                     THEN /\ trace' = [trace EXCEPT ![p] = <<"_ensure_initialized">>]
                          /\ Finish(p, SampleFailure(ei.err), [l EXCEPT !.raised = ei.err])
                     ELSE IF ei.processor.container = 0
                     THEN /\ trace' = [trace EXCEPT ![p] = <<"_ensure_initialized">>]
                          /\ Finish(p,
                               SampleFailure("Cosmos DB container not properly initialized"),
                               [l EXCEPT !.raised =
                                   "Cosmos DB container not properly initialized"])
                     ELSE /\ trace' = [trace EXCEPT ![p] =
                                          <<"_ensure_initialized", "query_items">>]
                          /\ Suspend(p, "get_sample_incidents", l)

\* a sample endpoint that stores a sample when it finds the container empty
SampleExecuted_Seeding(p, outcome) ==
    /\ kind[p] = "http_get_sample_incidents"
    /\ pc[p] = "get_sample_incidents"
    /\ UNCHANGED <<env, processor, created, uuids, started, kind, trace>>
    /\ IF outcome = "unavailable"
       THEN /\ store' = store
            /\ Finish(p, SampleFailure("CosmosHttpResponseError"),
                      [loc[p] EXCEPT !.raised = "CosmosHttpResponseError"])
       ELSE /\ store' = IF store = << >> THEN <<PriorDocument>> ELSE store
            /\ \E sample_incidents \in SampleItems(store, loc[p].limit) :
                  Finish(p,
                    [status |-> 200,
                     body |-> [sample_incidents |-> sample_incidents,
                               count |-> Len(sample_incidents),
                               success |-> TRUE,
                               timestamp |-> Now]],
                    loc[p])

\* from the result of query_items to the response
SampleExecuted(p, outcome) ==
    /\ kind[p] = "http_get_sample_incidents"
    /\ pc[p] = "get_sample_incidents"
    /\ UNCHANGED <<env, processor, created, store, uuids, started, kind, trace>>
    /\ IF outcome = "unavailable"
       THEN Finish(p, SampleFailure("CosmosHttpResponseError"),
                   [loc[p] EXCEPT !.raised = "CosmosHttpResponseError"])
       ELSE \E sample_incidents \in SampleItems(store, loc[p].limit) :
               Finish(p,
                 [status |-> 200,
                  body |-> [sample_incidents |-> sample_incidents,
                            count |-> Len(sample_incidents),
                            success |-> TRUE,
                            timestamp |-> Now]],
                 loc[p])

\* ---------------------------------------------------------------------------
\* initialize_sample_incidents
\* ---------------------------------------------------------------------------
\* the sample incident of the timer function
SampleIncident ==
    [Payload("INC-001", Absent, "Suspicious PowerShell Activity Detected", Absent,
             "High", StrList)
        EXCEPT !.status = "New", !.relatedEntities = "list[dict]"]

\* the function returns None, also when its except branch has logged an
\* exception
Returned == [status |-> 0, body |-> [returned |-> TRUE]]

\* from the timer to the await of query_items in get_sample_incidents(1)
SeedStart(p) ==
    /\ Free(p)
    /\ started < MaxRequests
    /\ started' = started + 1
    /\ kind' = [kind EXCEPT ![p] = "initialize_sample_incidents"]
    /\ UNCHANGED <<env, store, uuids>>
    /\ LET l == [NoLoc EXCEPT !.limit = 1]
           ei == _ensure_initialized(processor, created)
       IN /\ processor' = ei.processor
          /\ created' = ei.created
          /\ IF ei.err # ""
             THEN /\ trace' = [trace EXCEPT ![p] = <<"_ensure_initialized">>]
                  /\ Finish(p, Returned, [l EXCEPT !.raised = ei.err])
             ELSE /\ trace' = [trace EXCEPT ![p] = <<"_ensure_initialized", "query_items">>]
                  /\ Suspend(p, "get_sample_incidents", l)

\* from the result of query_items to the await of the chat completion in
\* analyze_incident
SeedQueried(p, outcome) ==
    /\ kind[p] = "initialize_sample_incidents"
    /\ pc[p] = "get_sample_incidents"
    /\ UNCHANGED <<env, processor, created, store, uuids, started, kind>>
    /\ IF outcome = "unavailable"
       THEN /\ trace' = trace
            /\ Finish(p, Returned, [loc[p] EXCEPT !.raised = "CosmosHttpResponseError"])
       ELSE \E existing_incidents \in SampleItems(store, 1) :
               IF existing_incidents # << >>
               THEN /\ trace' = trace
                    /\ Finish(p, Returned, loc[p])
               ELSE /\ trace' = [trace EXCEPT ![p] =
                                    @ \o <<"_ensure_initialized", "chat.completions.create">>]
                    /\ Suspend(p, "analyze_incident",
                               [loc[p] EXCEPT !.incident = SampleIncident])

\* from the reply of the chat completion to the await of create_item in
\* store_incident
SeedAnalyzed(p, reply) ==
    /\ kind[p] = "initialize_sample_incidents"
    /\ pc[p] = "analyze_incident"
    /\ UNCHANGED <<env, processor, created, store, started, kind>>
    /\ LET analysis == AnalysisOf(loc[p].incident, reply)
       IN /\ uuids' = uuids + 1
          /\ trace' = [trace EXCEPT ![p] = @ \o <<"_ensure_initialized", "create_item">>]
          /\ Suspend(p, "store_incident",
                     [loc[p] EXCEPT
                        !.analysis = analysis,
                        !.outcome = IF reply.raises \/ ~reply.parses
                                    THEN "fallback" ELSE "model",
                        !.document = Document(Uuid(uuids + 1), loc[p].incident, analysis)])

\* from the result of create_item to the return
SeedStored(p, outcome) ==
    /\ kind[p] = "initialize_sample_incidents"
    /\ pc[p] = "store_incident"
    /\ UNCHANGED <<env, processor, created, uuids, started, kind, trace>>
    /\ IF outcome = "unavailable"
       THEN /\ store' = store
            /\ Finish(p, Returned, [loc[p] EXCEPT !.raised = "CosmosHttpResponseError"])
       ELSE /\ store' = Append(store, WithEtag(loc[p].document, 1))
            /\ Finish(p, Returned, loc[p])

\* ---------------------------------------------------------------------------
\* http_health_check
\* ---------------------------------------------------------------------------
\* an aggregate that calls every state but healthy "unhealthy"
HealthStatus_Unhealthy(cosmos_status, openai_status) ==
    IF cosmos_status = "healthy" /\ openai_status = "healthy"
    THEN "healthy" ELSE "unhealthy"

\* "healthy" if all_healthy else "degraded"
HealthStatus(cosmos_status, openai_status) ==
    IF cosmos_status = "healthy" /\ openai_status = "healthy"
    THEN "healthy" ELSE "degraded"

\* the whole handler: it has no await that suspends
HttpHealthCheck(p) ==
    /\ Free(p)
    /\ started < MaxRequests
    /\ started' = started + 1
    /\ kind' = [kind EXCEPT ![p] = "http_health_check"]
    /\ UNCHANGED <<env, store, uuids>>
    /\ LET ei == _ensure_initialized(processor, created)
           cosmos_status ==
               IF ei.err # "" THEN "unhealthy: " \o ei.err
               ELSE IF ei.processor.container # 0 THEN "healthy"
               ELSE "not initialized"
           openai_status ==
               IF ei.processor.openai_client # 0 THEN "healthy" ELSE "not initialized"
       IN /\ processor' = ei.processor
          /\ created' = ei.created
          /\ trace' = [trace EXCEPT ![p] = <<"_ensure_initialized">>]
          /\ Finish(p,
               [status |-> 200,
                body |-> [status |-> HealthStatus(cosmos_status, openai_status),
                          cosmos_db |-> cosmos_status,
                          azure_openai |-> openai_status,
                          timestamp |-> Now,
                          service |-> "security-incident-processor"]],
               NoLoc)

\* ---------------------------------------------------------------------------
\* Specification
\* ---------------------------------------------------------------------------
\* the actions of each handler
Sentinel(p) ==
    \/ \E body \in Bodies : SentinelStart(p, body)
    \/ \E reply \in AnalysisReplies : SentinelAnalyzed(p, reply)
    \/ \E outcome \in StoreOutcomes : SentinelStored(p, outcome)

Update(p) ==
    \/ \E body \in UpdateBodies : UpdateStart(p, body)
    \/ \E outcome \in StoreOutcomes : UpdateRead(p, outcome)
    \/ \E outcome \in StoreOutcomes : UpdateReplaced(p, outcome)

Query(p) ==
    \/ \E params \in QueryParams : HttpQueryStart(p, params)
    \/ \E args \in QueryArguments : McpQueryStart(p, args)
    \/ \E reply \in TranslationReplies : QueryTranslated(p, reply)
    \/ \E outcome \in StoreOutcomes : QueryExecuted(p, outcome)

Sample(p) ==
    \/ \E params \in SampleParams : HttpSampleStart(p, params)
    \/ \E outcome \in StoreOutcomes : SampleExecuted(p, outcome)

\* the whole application
Seed(p) ==
    \/ SeedStart(p)
    \/ \E outcome \in StoreOutcomes : SeedQueried(p, outcome)
    \/ \E reply \in AnalysisReplies : SeedAnalyzed(p, reply)
    \/ \E outcome \in StoreOutcomes : SeedStored(p, outcome)

Next ==
    \E p \in Procs :
        \/ Sentinel(p) \/ Update(p) \/ Query(p) \/ Sample(p) \/ HttpHealthCheck(p)
        \/ Seed(p)

Spec == Init /\ [][Next]_vars

\* the action-status endpoint alone, on the container as it finds it
NextUpdate == \E p \in Procs : Update(p)

SpecUpdate == Init /\ [][NextUpdate]_vars

\* the replies of the chat completion that decide which plan is stored:
\* the call raises, or it returns the plan asked for
PlanReplies ==
    { [raises |-> TRUE, parses |-> FALSE, value |-> JNull],
      [raises |-> FALSE, parses |-> TRUE, value |-> GoodPlan("High")] }

\* the update requests that name a document
NamingUpdates == {body \in UpdateBodies : body.json /\ body.document_id \in {Uuid(0), Uuid(1)}}

\* ingest and the action-status endpoint, the operations that write to the
\* container, for the requests that reach it
NextLifecycle ==
    \E p \in Procs :
        \/ \E body \in {b \in Bodies : b.json /\ b.properties = NoPayload} :
               SentinelStart(p, body)
        \/ \E reply \in PlanReplies : SentinelAnalyzed(p, reply)
        \/ \E outcome \in StoreOutcomes : SentinelStored(p, outcome)
        \/ \E body \in NamingUpdates : UpdateStart(p, body)
        \/ \E outcome \in StoreOutcomes : UpdateRead(p, outcome)
        \/ \E outcome \in StoreOutcomes : UpdateReplaced(p, outcome)

SpecLifecycle == Init /\ [][NextLifecycle]_vars

\* ingest of payloads of every severity, the model answering with a plan
NextSeverity ==
    \E p \in Procs :
        \/ \E body \in SeverityBodies : SentinelStart(p, body)
        \/ \E reply \in {r \in PlanReplies : r.parses} : SentinelAnalyzed(p, reply)
        \/ \E outcome \in StoreOutcomes : SentinelStored(p, outcome)

SpecSeverity == Init /\ [][NextSeverity]_vars

\* ingest alone, the model answering with a plan or failing
NextIngest ==
    \E p \in Procs :
        \/ \E body \in {b \in Bodies : b.json} : SentinelStart(p, body)
        \/ \E reply \in PlanReplies : SentinelAnalyzed(p, reply)
        \/ \E outcome \in StoreOutcomes : SentinelStored(p, outcome)

SpecIngest == Init /\ [][NextIngest]_vars

\* the sample endpoint, on a container that ingest fills
NextSample ==
    \E p \in Procs :
        \/ Sample(p)
        \/ \E body \in {b \in Bodies : b.json /\ b.properties = NoPayload} :
               SentinelStart(p, body)
        \/ \E reply \in PlanReplies : SentinelAnalyzed(p, reply)
        \/ \E outcome \in StoreOutcomes : SentinelStored(p, outcome)

SpecSample == Init /\ [][NextSample]_vars

\* the health endpoint, probing beside requests for samples
NextHealth == \E p \in Procs : HttpHealthCheck(p) \/ Sample(p)

SpecHealth == Init /\ [][NextHealth]_vars

\* the operations that read the container: both query surfaces and the
\* sample endpoint
NextRead ==
    \E p \in Procs :
        \/ HttpQueryStart(p, [query |-> QUESTION])
        \/ \E args \in {a \in QueryArguments : a.query \in {"", QUESTION}} :
               McpQueryStart(p, args)
        \/ \E reply \in TranslationReplies : QueryTranslated(p, reply)
        \/ \E outcome \in StoreOutcomes : QueryExecuted(p, outcome)
        \/ \E params \in {s \in SampleParams : s.limit \in {Absent, "1", "abc"}} :
               HttpSampleStart(p, params)
        \/ \E outcome \in StoreOutcomes : SampleExecuted(p, outcome)

SpecRead == Init /\ [][NextRead]_vars

\* the operations that call the model: ingest and both query surfaces
NextModelCalls ==
    \E p \in Procs :
        \/ \E body \in {b \in Bodies : b.json /\ b.top.severity = "Critical"} :
               SentinelStart(p, body)
        \/ \E reply \in {r \in AnalysisReplies : ~r.parses} \cup PlanReplies :
               SentinelAnalyzed(p, reply)
        \/ SentinelStored(p, "ok")
        \/ HttpQueryStart(p, [query |-> QUESTION])
        \/ McpQueryStart(p, [query |-> QUESTION])
        \/ \E reply \in {r \in TranslationReplies : r.raises \/ Len(r.content) = 3} :
               QueryTranslated(p, reply)
        \/ QueryExecuted(p, "ok")

SpecModelCalls == Init /\ [][NextModelCalls]_vars

\* the callers of _ensure_initialized that start with it: the health and
\* sample endpoints, the action-status endpoint and the seeding function
NextEnsure ==
    \E p \in Procs :
        \/ HttpHealthCheck(p)
        \/ \E params \in {s \in SampleParams : s.limit = "1"} : HttpSampleStart(p, params)
        \/ SampleExecuted(p, "ok")
        \/ \E body \in {b \in NamingUpdates : b.document_id = Uuid(0)} : UpdateStart(p, body)
        \/ UpdateRead(p, "ok")
        \/ UpdateReplaced(p, "ok")
        \/ SeedStart(p)
        \/ SeedQueried(p, "ok")
        \/ \E reply \in PlanReplies : SeedAnalyzed(p, reply)
        \/ SeedStored(p, "ok")

SpecEnsure == Init /\ [][NextEnsure]_vars

\* the two query surfaces alone, on the container as they find it
NextQuery == \E p \in Procs : Query(p)

SpecQuery == Init /\ [][NextQuery]_vars

TypeOK ==
    /\ started \in 0..MaxRequests
    /\ uuids \in 0..MaxRequests
    /\ Len(store) <= uuids + 1
    /\ \A p \in Procs :
        /\ kind[p] \in {"none", "sentinel_receiver", "http_update_incident_actions",
                        "http_get_sample_incidents", "http_health_check",
                        "initialize_sample_incidents"}
                           \cup QuerySurfaces
        /\ pc[p] \in {"idle", "done", "analyze_incident", "store_incident",
                      "read_item", "replace_item", "generate_incident_sql", "query_items",
                      "get_sample_incidents"}

\* ---------------------------------------------------------------------------
\* Properties
\* ---------------------------------------------------------------------------
Range(q) == {q[i] : i \in 1..Len(q)}

Count(q, x) == Cardinality({i \in 1..Len(q) : q[i] = x})

\* an ActionPlan: a dict with the eight fields, each of its type
Complete(analysis) ==
    /\ analysis.t = "dict"
    /\ \A f \in PlanFields :
          f \in DOMAIN analysis.v /\ analysis.v[f].t = PlanFieldType(f)

\* the failure envelope of the handlers' except Exception branch with
\* status 500, whatever its message
GenericFailure(r) ==
    /\ r.status = 500
    /\ DOMAIN r.body = {"success", "error", "timestamp"}
    /\ r.body.success = FALSE

\* C1: the store holds at most one document per incidentId, however often
\* an incident is ingested.
C1_OneDocumentPerIncidentId ==
    \A i, j \in 1..Len(store) :
        store[i].incident_id = store[j].incident_id => i = j

\* C2: every query the query path hands to the store contains the
\* mandatory record-type filter; a translation without it is not executed.
C2_ExecutedQueryHasTypeFilter ==
    \A p \in Procs :
        pc[p] = "query_items" => TYPE_FILTER \in Range(loc[p].sql_query)

\* C3: analyze_incident never raises to its caller: each invocation ends
\* by returning the model's plan or the fallback plan.
C3_AnalyzeIncidentNeverRaises ==
    \A p \in Procs : loc[p].outcome # "raised"

\* C4: the analysis of every stored document has all eight ActionPlan
\* fields with the correct types.
C4_StoredAnalysisComplete ==
    \A i \in 1..Len(store) : Complete(store[i].analysis)

\* C5: a replace that succeeds targets a document that was not modified
\* since the request read it: the stored _etag is still the one read.
C5_StaleWriteRejected ==
    [][\A p \in Procs :
          (pc[p] = "replace_item" /\ UpdateReplaced(p, "ok") /\ store' # store)
              => store[IndexOf(store, loc[p].document_id)]["_etag"] = loc[p].read_etag]_vars

\* C6: when the chat completion of the translation raises, the request ends
\* there with a failure envelope (success = false): no query_items call is
\* made for it, with no query put in the place of the failed translation.
C6_TranslationFailurePropagates ==
    [][\A p \in Procs : \A reply \in TranslationReplies :
          (reply.raises /\ QueryTranslated(p, reply))
              => /\ pc'[p] = "done"
                 /\ resp'[p].body.success = FALSE
                 /\ "error" \in DOMAIN resp'[p].body
                 /\ "query_items" \notin Range(trace'[p])
                 /\ store' = store]_vars

\* a query request of either surface has ended on a failed translation
C6_Witness ==
    \E p \in Procs :
        /\ kind[p] \in QuerySurfaces
        /\ pc[p] = "done"
        /\ loc[p].raised = "APIError"
        /\ trace[p] = <<"_ensure_initialized", "_ensure_initialized",
                        "chat.completions.create">>
        /\ resp[p].body.success = FALSE

\* C7: an ingest request calls the model before it writes, writes only once
\* a complete ActionPlan exists, and writes exactly once when it succeeds.
C7_WriteOnceAfterCompletePlan ==
    \A p \in Procs :
        kind[p] = "sentinel_receiver" =>
            /\ \A i \in 1..Len(trace[p]) :
                  trace[p][i] = "create_item" =>
                      \E j \in 1..(i - 1) : trace[p][j] = "chat.completions.create"
            /\ Count(trace[p], "create_item") <= 1
            /\ pc[p] = "store_incident" => Complete(loc[p].analysis)
            /\ (pc[p] = "done" /\ resp[p].status = 200) =>
                  Count(trace[p], "create_item") = 1

\* C8: the store client and the model client are each created at most
\* once, and no request is past initialisation while one of them is unset.
C8_ClientsCreatedOnce ==
    /\ created.cosmos <= 1
    /\ created.openai <= 1
    /\ \A p \in Procs :
          pc[p] \notin {"idle", "done"} =>
              processor.container # 0 /\ processor.openai_client # 0

\* C9: an update request without document_id or without action_status ends
\* at once with a 4xx response; it calls neither _ensure_initialized nor the
\* store, and the store and the processor are as before.
C9_MissingFieldsRejectedBeforeStore ==
    [][\A p \in Procs : \A body \in UpdateBodies :
          (/\ body.json
           /\ body.document_id = Absent \/ body.action_status = Absent
           /\ UpdateStart(p, body))
              => /\ pc'[p] = "done"
                 /\ resp'[p].status \in 400..499
                 /\ trace'[p] = << >>
                 /\ store' = store
                 /\ processor' = processor
                 /\ created' = created]_vars

\* an update request has been rejected for its missing fields
C9_Witness ==
    \E p \in Procs :
        /\ kind[p] = "http_update_incident_actions"
        /\ pc[p] = "done"
        /\ resp[p].status = 400
        /\ trace[p] = << >>

\* C10: an update of a document_id the store does not hold ends with a
\* response that differs from the generic failure, and writes nothing.
C10_NotFoundDistinctFromFailure ==
    [][\A p \in Procs :
          (/\ pc[p] = "read_item"
           /\ IndexOf(store, loc[p].document_id) = 0
           /\ UpdateRead(p, "ok"))
              => /\ pc'[p] = "done"
                 /\ store' = store
                 /\ ~GenericFailure(resp'[p])]_vars

\* a query that is absent, empty or blank
NoQuery(q) == q = Absent \/ StripStr(q) = ""

\* the response of a surface that rejected the request for its query
QueryRequired(r) ==
    /\ "error" \in DOMAIN r.body
    /\ r.body.error = "Query parameter is required"

\* C11: both query surfaces answer a request whose query is missing or
\* empty with the failure "Query parameter is required", before any call
\* to the model or the container.
C11_EmptyQueryRejected ==
    [][\A p \in Procs :
          /\ \A params \in QueryParams :
                (NoQuery(params.query) /\ HttpQueryStart(p, params))
                   => /\ pc'[p] = "done"
                      /\ QueryRequired(resp'[p])
                      /\ trace'[p] = << >>
          /\ \A args \in QueryArguments :
                (NoQuery(args.query) /\ McpQueryStart(p, args))
                   => /\ pc'[p] = "done"
                      /\ QueryRequired(resp'[p])
                      /\ trace'[p] = << >>]_vars

\* the fields the action-status endpoint sets, and the system property the
\* container sets itself at every write
ActionFields == {"action_plan_status", "action_plan_notes", "action_plan_updated"}

SystemFields == {"_etag"}

\* C12: a stored document is never deleted, and it changes only in a step
\* that completes replace_item of the action-status endpoint, which leaves
\* every field but action_plan_status, action_plan_notes and
\* action_plan_updated as it was (the analysis included).
C12_OnlyActionFieldsChange ==
    [][/\ Len(store') >= Len(store)
       /\ \A i \in 1..Len(store) :
             /\ DOMAIN store'[i] = DOMAIN store[i]
             /\ \A f \in DOMAIN store[i] \ (ActionFields \cup SystemFields) :
                   store'[i][f] = store[i][f]
             /\ store'[i] # store[i] =>
                   \E p \in Procs :
                       /\ kind[p] = "http_update_incident_actions"
                       /\ pc[p] = "replace_item"
                       /\ pc'[p] = "done"
                       /\ loc[p].document_id = store[i].id]_vars

\* an update has replaced a stored document
C12_Witness ==
    \E p \in Procs : \E i \in 1..Len(store) :
        /\ kind[p] = "http_update_incident_actions"
        /\ pc[p] = "done"
        /\ resp[p].status = 200
        /\ store[i].id = resp[p].body.document_id
        /\ store[i]["_etag"] > 1
        /\ store[i].action_plan_status # "Pending"

\* the risk levels of an ActionPlan
RiskLevels == {"Critical", "High", "Medium", "Low"}

RiskLevelOK(analysis) ==
    /\ analysis.t = "dict"
    /\ "risk_level" \in DOMAIN analysis.v
    /\ analysis.v["risk_level"].t = "str"
    /\ analysis.v["risk_level"].v \in RiskLevels

\* C13: the risk_level of every plan analyze_incident returns, the
\* fallback plan included, and so of every stored document, is one of
\* Critical, High, Medium, Low.
C13_RiskLevelInEnum ==
    /\ \A p \in Procs : pc[p] = "store_incident" => RiskLevelOK(loc[p].analysis)
    /\ \A i \in 1..Len(store) : RiskLevelOK(store[i].analysis)

\* C14: the sample endpoint asks for the caller's limit clamped to 1..100,
\* and answers with that many documents (all of them when the container
\* holds fewer): documents of the container, none of a lower
\* severity_level than a document left out, in non-increasing order of
\* severity_level.
C14_SampleClampedAndOrdered ==
    [][\A p \in Procs :
          /\ \A params \in SampleParams :
                LET parsed == ParseInt(GetDefault(params, "limit", "10"))
                IN (/\ parsed.ok
                    /\ HttpSampleStart(p, params)
                    /\ pc'[p] = "get_sample_incidents")
                      => loc'[p].limit = IF parsed.value < 1 THEN 1
                                         ELSE IF parsed.value > 100 THEN 100
                                         ELSE parsed.value
          /\ (pc[p] = "get_sample_incidents" /\ SampleExecuted(p, "ok"))
                => LET r == resp'[p].body.sample_incidents
                   IN /\ loc[p].limit \in 1..100
                      /\ Len(r) <= loc[p].limit
                      /\ Len(r) = IF Len(store) < loc[p].limit
                                  THEN Len(store) ELSE loc[p].limit
                      /\ resp'[p].body.count = Len(r)
                      /\ Range(r) \subseteq Range(store)
                      /\ \A i, j \in 1..Len(r) : i # j => r[i].id # r[j].id
                      /\ \A i \in 1..(Len(r) - 1) :
                            r[i].severity_level >= r[i + 1].severity_level
                      /\ \A d \in Range(store) \ Range(r) : \A i \in 1..Len(r) :
                            d.severity_level <= r[i].severity_level]_vars

\* a sample of one document has been given of a container that holds a
\* document of a lower severity_level as well
C14_Witness ==
    \E p \in Procs :
        /\ kind[p] = "http_get_sample_incidents"
        /\ pc[p] = "done"
        /\ resp[p].status = 200
        /\ resp[p].body.count = 1
        /\ \E d \in Range(store) :
              d.severity_level < resp[p].body.sample_incidents[1].severity_level

\* C15: the severity_level of every stored document is the rank of its
\* severity: Informational 1, Low 2, Medium 3, High 4, Critical 5, and 0
\* when the severity is absent or any other value.
C15_SeverityLevelIsRank ==
    \A i \in 1..Len(store) :
        LET d == store[i]
        IN /\ d.severity = "Informational" => d.severity_level = 1
           /\ d.severity = "Low" => d.severity_level = 2
           /\ d.severity = "Medium" => d.severity_level = 3
           /\ d.severity = "High" => d.severity_level = 4
           /\ d.severity = "Critical" => d.severity_level = 5
           /\ d.severity \notin {"Informational", "Low", "Medium", "High", "Critical"}
                 => d.severity_level = 0

\* ingest has stored a document of a severity of the table and a document
\* without severity
C15_Witness ==
    \E i, j \in 1..Len(store) :
        /\ store[i].id \notin {PriorDocument.id}
        /\ store[i].severity = "Informational"
        /\ store[i].severity_level = 1
        /\ store[j].severity = None
        /\ store[j].severity_level = 0

\* the plan of analyze_incident's except branch
IsFallback(analysis) ==
    /\ analysis.t = "dict"
    /\ "analysis_summary" \in DOMAIN analysis.v
    /\ analysis.v["analysis_summary"].v = "Error during analysis: APIError"

\* C16: an ingest whose chat completion raises goes on to create_item
\* with a document that has the severity_level of its severity (5 for
\* Critical), an analysis with a risk_level, and action_plan_status
\* "Pending"; and every document create_item adds to the container is the
\* document built, with action_plan_status "Pending".
C16_ModelFailureStillStores ==
    [][\A p \in Procs :
          /\ \A reply \in AnalysisReplies :
                (reply.raises /\ SentinelAnalyzed(p, reply))
                   => /\ pc'[p] = "store_incident"
                      /\ Count(trace'[p], "create_item") = 1
                      /\ LET d == loc'[p].document
                         IN /\ loc[p].severity = "Critical" => d.severity_level = 5
                            /\ loc[p].severity \notin
                                  {"Informational", "Low", "Medium", "High", "Critical"}
                                     => d.severity_level = 0
                            /\ d.analysis.t = "dict"
                            /\ "risk_level" \in DOMAIN d.analysis.v
                            /\ d.analysis.v["risk_level"].t = "str"
                            /\ d.action_plan_status = "Pending"
          /\ (pc[p] = "store_incident" /\ SentinelStored(p, "ok"))
                => /\ Len(store') = Len(store) + 1
                   /\ SubSeq(store', 1, Len(store)) = store
                   /\ store'[Len(store')].id = loc[p].document.id
                   /\ store'[Len(store')].analysis = loc[p].document.analysis
                   /\ store'[Len(store')].severity_level = loc[p].document.severity_level
                   /\ store'[Len(store')].action_plan_status = "Pending"]_vars

\* a Critical incident whose chat completion raised has been stored
C16_Witness ==
    \E p \in Procs : \E i \in 1..Len(store) :
        /\ kind[p] = "sentinel_receiver"
        /\ pc[p] = "done"
        /\ resp[p].status = 200
        /\ store[i].id = resp[p].body.document_id
        /\ store[i].severity = "Critical"
        /\ store[i].severity_level = 5
        /\ IsFallback(store[i].analysis)
        /\ store[i].action_plan_status = "Pending"

\* the canonical record of a payload, as normalisation is to give it
CanonicalTitle(incident) ==
    IF incident.title # Absent THEN incident.title ELSE Get(incident, "incidentName")

CanonicalId(incident) ==
    IF incident.incidentId # Absent THEN incident.incidentId ELSE Get(incident, "id")

CanonicalSeverity(incident) ==
    IF incident.severity = Absent THEN "Unknown" ELSE incident.severity

\* C17: the response of an ingest and the document it stored both carry
\* the canonical record of the payload: title from title, else
\* incidentName; incident id from incidentId, else id; severity "Unknown"
\* when the payload has none; empty lists for absent relatedEntities and
\* relatedAlerts.
C17_NormalisedInResponseAndDocument ==
    /\ \A i \in 1..Len(store) :
          LET d == store[i]
          IN /\ d.title = CanonicalTitle(d.raw_data)
             /\ d.incident_id = CanonicalId(d.raw_data)
             /\ d.severity = CanonicalSeverity(d.raw_data)
             /\ d.raw_data.relatedEntities = Absent => d.entities = EmptyList
             /\ d.raw_data.relatedAlerts = Absent => d.alerts = EmptyList
    /\ \A p \in Procs :
          (kind[p] = "sentinel_receiver" /\ pc[p] = "done" /\ resp[p].status = 200)
             => \E i \in 1..Len(store) :
                   /\ store[i].id = resp[p].body.document_id
                   /\ resp[p].body.title = CanonicalTitle(store[i].raw_data)
                   /\ resp[p].body.incident_id = CanonicalId(store[i].raw_data)
                   /\ resp[p].body.severity = CanonicalSeverity(store[i].raw_data)

\* C18: handling a health request leaves the processor (its _initialized
\* flag and its client references) and the container as they were.
C18_HealthProbeMutatesNothing ==
    [][\A p \in Procs :
          HttpHealthCheck(p) => /\ processor' = processor
                                /\ created' = created
                                /\ store' = store]_vars

\* C19: the status a health request answers with is "healthy" exactly
\* when it reports both cosmos_db and azure_openai "healthy", and
\* "degraded" in every other case.
C19_HealthyIffBothHealthy ==
    \A p \in Procs :
        (kind[p] = "http_health_check" /\ pc[p] = "done")
           => LET b == resp[p].body
              IN /\ resp[p].status = 200
                 /\ b.status = "healthy"
                       <=> (b.cosmos_db = "healthy" /\ b.azure_openai = "healthy")
                 /\ b.status # "healthy" => b.status = "degraded"

\* a health request has answered that a dependency is not healthy
C19_Witness ==
    \E p \in Procs :
        /\ kind[p] = "http_health_check"
        /\ pc[p] = "done"
        /\ resp[p].body.cosmos_db \notin {"healthy", "not initialized"}
        /\ resp[p].body.azure_openai = "not initialized"
        /\ resp[p].body.status = "degraded"

\* a response that reports an error
IsError(r) == r.status >= 400 \/ "error" \in DOMAIN r.body

\* C20: every error that ingest, either query surface, the action-status
\* update (its validation error included) or the sample endpoint answers
\* with is the failure envelope: success = false, an error message and a
\* timestamp.
C20_ErrorsAreFailureEnvelopes ==
    \A p \in Procs :
        (/\ pc[p] = "done"
         /\ kind[p] \in {"sentinel_receiver", "http_update_incident_actions",
                         "http_get_sample_incidents"} \cup QuerySurfaces
         /\ IsError(resp[p]))
           => /\ {"success", "error", "timestamp"} \subseteq DOMAIN resp[p].body
              /\ resp[p].body.success = FALSE

\* the values of actionPlanStatus; the handler's comment writes the second
\* one "In Progress"
ActionPlanStatuses == {"Pending", "InProgress", "In Progress", "Completed"}

\* C21: the action_plan_status of every stored document is Pending,
\* InProgress or Completed, whatever action_status the callers of the
\* action-status endpoint supply.
C21_ActionPlanStatusInEnum ==
    \A i \in 1..Len(store) : store[i].action_plan_status \in ActionPlanStatuses

\* C22: no step of a query, on either surface, or of a sample request
\* changes the container, whether the request ends in success or failure.
C22_QueryAndSampleReadOnly ==
    [][\A p \in Procs : (Query(p) \/ Sample(p)) => store' = store]_vars

\* a query and a sample request have both answered with the document the
\* container holds
C22_Witness ==
    \E p, q \in Procs :
        /\ kind[p] \in QuerySurfaces
        /\ pc[p] = "done"
        /\ "count" \in DOMAIN resp[p].body
        /\ resp[p].body.count = 1
        /\ kind[q] = "http_get_sample_incidents"
        /\ pc[q] = "done"
        /\ resp[q].status = 200
        /\ resp[q].body.count = 1
        /\ store = <<PriorDocument>>

\* C23: the answer of the query_incidents tool to a query with n matches
\* reports count n and a summary that lists the first min(n, 5) matches in
\* result order, each with at most 2 immediate actions, and ends with
\* "... and N more" for N = n - 5 exactly when n > 5.
C23_DigestOfFirstFive ==
    [][\A p \in Procs :
          (/\ kind[p] = "mcp_query_incidents"
           /\ pc[p] = "query_items"
           /\ WellFormed(loc[p].sql_query)
           /\ QueryExecuted(p, "ok"))
             => LET matches == QueryItems(store, loc[p].sql_query)
                    n == Len(matches)
                    b == resp'[p].body
                IN /\ "summary" \in DOMAIN b
                   /\ b.count = n
                   /\ b.summary.results = n
                   /\ Len(b.summary.listed) = IF n < 5 THEN n ELSE 5
                   /\ \A i \in 1..Len(b.summary.listed) :
                         /\ b.summary.listed[i].title = matches[i].title
                         /\ Len(b.summary.listed[i].immediate_actions) <= 2
                   /\ b.summary.more = IF n > 5 THEN n - 5 ELSE 0]_vars

\* C24: a request calls chat.completions.create at most once: one call
\* per analyze_incident, whether it returns the model's plan or the
\* fallback plan, and one call per generate_incident_sql, whether it
\* returns or raises.
C24_AtMostOneModelCall ==
    \A p \in Procs : Count(trace[p], "chat.completions.create") <= 1

\* an ingest whose one call to the model failed has answered with the
\* fallback plan
C24_Witness ==
    \E p \in Procs :
        /\ kind[p] = "sentinel_receiver"
        /\ pc[p] = "done"
        /\ loc[p].outcome = "fallback"
        /\ resp[p].status = 200
        /\ Count(trace[p], "chat.completions.create") = 1

\* the code-fence markers
Fences == {FENCE, FENCE_SQL}

\* C25: the query text generate_incident_sql returns, which query_items
\* is called with, holds no code-fence marker, whatever the model's
\* output; stripping it again gives the same text; and an output without
\* fences comes back unchanged but for the whitespace around it.
C25_FencesStrippedIdempotently ==
    [][\A p \in Procs : \A reply \in TranslationReplies :
          (~reply.raises /\ QueryTranslated(p, reply))
             => LET sql == loc'[p].sql_query
                IN /\ pc'[p] = "query_items"
                   /\ Range(sql) \cap Fences = {}
                   /\ SqlOf(sql) = sql
                   /\ Range(reply.content) \cap Fences = {}
                         => sql = Strip(reply.content)]_vars

\* C26: an ingest request answers success = false exactly when it wrote
\* no document: a request that ends before create_item, or whose
\* create_item raises, answers failure and leaves the container as it
\* was, and a request that answers success added exactly one document.
C26_FailureIffNothingStored ==
    [][\A p \in Procs :
          /\ \A body \in Bodies :
                (SentinelStart(p, body) /\ pc'[p] = "done")
                   => resp'[p].body.success = FALSE /\ store' = store
          /\ \A reply \in AnalysisReplies :
                (SentinelAnalyzed(p, reply) /\ pc'[p] = "done")
                   => resp'[p].body.success = FALSE /\ store' = store
          /\ \A outcome \in StoreOutcomes :
                (pc[p] = "store_incident" /\ SentinelStored(p, outcome))
                   => /\ resp'[p].body.success = FALSE <=> store' = store
                      /\ resp'[p].body.success = TRUE
                            => /\ Len(store') = Len(store) + 1
                               /\ SubSeq(store', 1, Len(store)) = store]_vars

\* C27: however many runs of initialize_sample_incidents there are,
\* overlapping or beside ingest requests, the container holds at most one
\* document of the sample incident INC-001.
C27_AtMostOneSeededIncident ==
    Cardinality({i \in 1..Len(store) : store[i].incident_id = "INC-001"}) <= 1

\* a step in which request p starts with a call of _ensure_initialized
\* that its handler does not catch
CallsEnsure(p) ==
    \/ \E body \in Bodies : body.json /\ SentinelStart(p, body)
    \/ \E body \in UpdateBodies :
          /\ body.json
          /\ Truthy(body.document_id) /\ Truthy(body.action_status)
          /\ UpdateStart(p, body)
    \/ \E params \in QueryParams : HttpQueryStart(p, params)
    \/ \E args \in QueryArguments : ~NoQuery(args.query) /\ McpQueryStart(p, args)
    \/ \E params \in SampleParams :
          ParseInt(GetDefault(params, "limit", "10")).ok /\ HttpSampleStart(p, params)
    \/ SeedStart(p)

\* C28: _initialized is True only when the container and the model client
\* are both set.  When a client setup raises in a request's call of
\* _ensure_initialized, _initialized stays False and the request ends with
\* that exception; and a call on a processor that is not initialised sets
\* the clients up again.
C28_InitializedMeansBothClients ==
    [][/\ processor'._initialized =>
             processor'.container # 0 /\ processor'.openai_client # 0
       /\ LET ei == _ensure_initialized(processor, created)
          IN \A p \in Procs :
                CallsEnsure(p) =>
                   /\ processor' = ei.processor
                   /\ created' = ei.created
                   /\ ei.err # "" => /\ ~processor'._initialized
                                     /\ pc'[p] = "done"
                                     /\ loc'[p].raised = ei.err
                   /\ (~processor._initialized /\ env.cosmos)
                         => created'.cosmos = created.cosmos + 1
                   /\ (~processor._initialized /\ env.cosmos /\ env.openai)
                         => created'.openai = created.openai + 1]_vars

\* a second call of _ensure_initialized has set the Cosmos client up again
\* after the first failed on the model client, and has failed as well
C28_Witness ==
    /\ ~processor._initialized
    /\ created.cosmos = 2
    /\ processor.container = 2
    /\ processor.openai_client = 0
    /\ \E p \in Procs :
          /\ pc[p] = "done"
          /\ loc[p].raised = "Missing required environment variable: AZURE_OPENAI_ENDPOINT"
====
